---- MODULE Spec2Model ----
(***************************************************************************)
(* Model of mini_server.py: the frame reader (recv_http, read_exact), the  *)
(* request parser (parse_request), the router (route), the todo handlers,  *)
(* the response writer (http_response, json_response) and the              *)
(* per-connection dispatcher (handle_client) run by one thread per         *)
(* accepted connection (serve_forever) over the shared STATE.              *)
(*                                                                         *)
(* Byte strings are sequences of items [t, n]: a symbol t repeated n       *)
(* times.  Every symbol stands for one byte of the wire ("CRLF" is the     *)
(* line terminator, "SP" a blank, "x" a filler byte); only the filler      *)
(* byte occurs in runs longer than one.                                    *)
(***************************************************************************)
EXTENDS Integers, Sequences, FiniteSets, TLC

\* ------------------------------------------------------------------ bounds
MaxConns == 4        \* connections accepted by the listener in one run
MaxActive == 2       \* connection threads alive at the same time
MaxFairConns == 2    \* connections accepted in the runs checked for liveness
MaxFairActive == 1   \* connection threads alive at the same time in those runs

\* ------------------------------------------------------- program constants
RECV_CHUNK == 4096
MAX_REQUEST == 2000000

\* ------------------------------------------------------------ byte strings
Min(a, b) == IF a < b THEN a ELSE b

B(t) == [t |-> t, n |-> 1]

Bytes(toks) == [i \in 1..Len(toks) |-> B(toks[i])]

Fill(k) == [t |-> "x", n |-> k]

RECURSIVE BLen(_)
BLen(s) == IF s = <<>> THEN 0 ELSE Head(s).n + BLen(Tail(s))

\* s + u, runs of the filler byte kept merged
Cat(s, u) ==
    IF s = <<>> THEN u
    ELSE IF u = <<>> THEN s
    ELSE LET a == s[Len(s)]
             b == Head(u)
         IN IF a.t = "x" /\ b.t = "x"
            THEN SubSeq(s, 1, Len(s) - 1) \o <<Fill(a.n + b.n)>> \o Tail(u)
            ELSE s \o u

\* s[:k]
RECURSIVE Take(_, _)
Take(s, k) ==
    IF k <= 0 \/ s = <<>> THEN <<>>
    ELSE IF Head(s).n <= k THEN Cat(<<Head(s)>>, Take(Tail(s), k - Head(s).n))
    ELSE <<[t |-> Head(s).t, n |-> k]>>

\* s[k:]
RECURSIVE Drop(_, _)
Drop(s, k) ==
    IF k <= 0 \/ s = <<>> THEN s
    ELSE IF Head(s).n <= k THEN Drop(Tail(s), k - Head(s).n)
    ELSE <<[t |-> Head(s).t, n |-> Head(s).n - k]>> \o Tail(s)

\* index of the first item of the first b"\r\n\r\n" in s, 0 when there is none
SepAt(s) ==
    LET hits == {i \in 1..(Len(s) - 1) : s[i].t = "CRLF" /\ s[i + 1].t = "CRLF"}
    IN IF hits = {} THEN 0 ELSE CHOOSE i \in hits : \A j \in hits : i <= j

HasSep(s) == SepAt(s) # 0

\* s.split(b"\r\n\r\n", 1) when the separator is there
HeaderBlob(s) == SubSeq(s, 1, SepAt(s) - 1)
AfterSep(s) == SubSeq(s, SepAt(s) + 2, Len(s))

Separator == Bytes(<<"CRLF", "CRLF">>)

\* s.split(tok): the pieces of s between the items tok
RECURSIVE SplitOn(_, _)
SplitOn(s, tok) ==
    LET hits == {i \in 1..Len(s) : s[i].t = tok}
    IN IF hits = {} THEN <<s>>
       ELSE LET i == CHOOSE h \in hits : \A j \in hits : h <= j
            IN <<SubSeq(s, 1, i - 1)>> \o SplitOn(SubSeq(s, i + 1, Len(s)), tok)

\* s.strip()
RECURSIVE Strip(_)
Strip(s) ==
    IF s = <<>> THEN s
    ELSE IF Head(s).t = "SP" THEN Strip(Tail(s))
    ELSE IF s[Len(s)].t = "SP" THEN Strip(SubSeq(s, 1, Len(s) - 1))
    ELSE s

\* s.split(): the words of s
Words(s) == SelectSeq(SplitOn(s, "SP"), LAMBDA p : p # <<>>)


\* ------------------------------------------------- library functions on str
\* bytes.decode("utf-8", errors="replace"): a byte that is no text becomes U+FFFD
DecodeTok(t) == IF t = "xFF" THEN "uFFFD" ELSE t

Decode(s) == [i \in 1..Len(s) |-> [t |-> DecodeTok(s[i].t), n |-> s[i].n]]

LowerTok(t) ==
    CASE t = "Content-Length" -> "content-length"
      [] t = "CONTENT-LENGTH" -> "content-length"
      [] t = "Content-Type" -> "content-type"
      [] t = "X-Pad" -> "x-pad"
      [] t = "GET" -> "get"
      [] t = "POST" -> "post"
      [] t = "PATCH" -> "patch"
      [] t = "DELETE" -> "delete"
      [] t = "PUT" -> "put"
      [] t = "TRUE" -> "true"
      [] t = "True" -> "true"
      [] t = "False" -> "false"
      [] t = "YES" -> "yes"
      [] t = "NO" -> "no"
      [] OTHER -> t

UpperTok(t) ==
    CASE t = "get" -> "GET"
      [] t = "post" -> "POST"
      [] t = "patch" -> "PATCH"
      [] t = "delete" -> "DELETE"
      [] t = "put" -> "PUT"
      [] t = "Get" -> "GET"
      [] OTHER -> t

Lower(s) == [i \in 1..Len(s) |-> [t |-> LowerTok(s[i].t), n |-> s[i].n]]
Upper(s) == [i \in 1..Len(s) |-> [t |-> UpperTok(s[i].t), n |-> s[i].n]]

\* s.startswith(p) for the literals the program tests
StartsWithHTTP(s) == s # <<>> /\ s[1].t \in {"HTTP/1.1", "HTTP/1.0", "HTTP/"}
StartsWithJSON(s) == s # <<>> /\ s[1].t = "application/json"

Digits == {"0", "1", "2", "3", "4", "5", "6", "7", "8", "9"}

DigitVal(t) ==
    CASE t = "0" -> 0 [] t = "1" -> 1 [] t = "2" -> 2 [] t = "3" -> 3
      [] t = "4" -> 4 [] t = "5" -> 5 [] t = "6" -> 6 [] t = "7" -> 7
      [] t = "8" -> 8 [] t = "9" -> 9

RECURSIVE DigitsVal(_, _)
DigitsVal(s, acc) ==
    IF s = <<>> THEN acc ELSE DigitsVal(Tail(s), 10 * acc + DigitVal(Head(s).t))

\* int(s): blanks around are dropped, a sign may lead, digits must follow;
\* ok = FALSE stands for ValueError
PyInt(s) ==
    LET z == Strip(s)
        signed == z # <<>> /\ z[1].t \in {"+", "-"}
        d == IF signed THEN Tail(z) ELSE z
    IN IF d = <<>> \/ \E i \in 1..Len(d) : d[i].t \notin Digits \/ d[i].n # 1
       THEN [ok |-> FALSE, v |-> 0]
       ELSE [ok |-> TRUE,
             v |-> IF z[1].t = "-" THEN 0 - DigitsVal(d, 0) ELSE DigitsVal(d, 0)]

\* index of the first item t of s, 0 when there is none
IndexOf(s, t) ==
    LET hits == {i \in 1..Len(s) : s[i].t = t}
    IN IF hits = {} THEN 0 ELSE CHOOSE i \in hits : \A j \in hits : i <= j

\* dict.get(k, dflt)
Get(d, k, dflt) == IF k \in DOMAIN d THEN d[k] ELSE dflt

EmptyDict == [k \in {} |-> <<>>]

\* the header loop shared by recv_http and parse_request: lines without a
\* colon are skipped, names are stripped and lower-cased, values stripped,
\* a later line replaces an earlier one of the same name
RECURSIVE HeaderDict(_, _)
HeaderDict(lines, headers) ==
    IF lines = <<>> THEN headers
    ELSE LET s == Decode(Head(lines))
             i == IndexOf(s, ":")
         IN IF i = 0 THEN HeaderDict(Tail(lines), headers)
            ELSE LET k == Lower(Strip(SubSeq(s, 1, i - 1)))
                     v == Strip(SubSeq(s, i + 1, Len(s)))
                 IN HeaderDict(Tail(lines), (k :> v) @@ headers)

ContentLengthKey == Bytes(<<"content-length">>)
ContentTypeKey == Bytes(<<"content-type">>)

\* ------------------------------------------------------------ frame reader
\* sock.recv(k) on the bytes queued in the socket: a sequence of segments as
\* the peer sent them; one call returns bytes of the first segment only
RecvChunk(inq, k) == Take(Head(inq), k)

RecvRest(inq, k) ==
    LET r == Drop(Head(inq), k)
    IN IF r = <<>> THEN Tail(inq) ELSE <<r>> \o Tail(inq)

\* an upper bound on the recv calls that can return data from inq
RECURSIVE MaxRecvs(_)
MaxRecvs(inq) ==
    IF inq = <<>> THEN 1
    ELSE 1 + (BLen(Head(inq)) \div RECV_CHUNK) + MaxRecvs(Tail(inq))

\* a read_exact whose loop does not break on an empty chunk: at the end of
\* the stream it goes on calling recv
ReadExactStepNoBreak(st, eof) ==
    IF st.k # "run" THEN st
    ELSE IF st.remaining <= 0 THEN [st EXCEPT !.k = "ok"]
    ELSE IF st.inq = <<>> THEN [st EXCEPT !.k = "block"]
    ELSE LET chunk == RecvChunk(st.inq, Min(st.remaining, RECV_CHUNK))
         IN [k |-> "run", data |-> Cat(st.data, chunk),
             inq |-> RecvRest(st.inq, Min(st.remaining, RECV_CHUNK)),
             remaining |-> st.remaining - BLen(chunk)]

\* one pass of the while loop of read_exact; k is "run" (loop again), "ok"
\* (returned), or "block" (recv never returns: no data and the peer is silent)
ReadExactStep(st, eof) ==
    IF st.k # "run" THEN st
    ELSE IF st.remaining <= 0 THEN [st EXCEPT !.k = "ok"]
    ELSE IF st.inq = <<>> THEN [st EXCEPT !.k = IF eof THEN "ok" ELSE "block"]
    ELSE LET chunk == RecvChunk(st.inq, Min(st.remaining, RECV_CHUNK))
         IN [k |-> "run", data |-> Cat(st.data, chunk),
             inq |-> RecvRest(st.inq, Min(st.remaining, RECV_CHUNK)),
             remaining |-> st.remaining - BLen(chunk)]

\* n passes of the loop
RECURSIVE ReadExactLoop(_, _, _)
ReadExactLoop(st, eof, n) ==
    IF st.k # "run" \/ n <= 0 THEN st
    ELSE IF n = 1 THEN ReadExactStep(st, eof)
    ELSE ReadExactLoop(ReadExactLoop(st, eof, n \div 2), eof, n - (n \div 2))

read_exact(inq, eof, n) ==
    ReadExactLoop([k |-> "run", data |-> <<>>, inq |-> inq, remaining |-> n],
                  eof, MaxRecvs(inq) + 1)

\* a loop that looks for the separator before it checks the size
ReadHeadersStepSeparatorFirst(st, eof) ==
    IF st.k # "run" THEN st
    ELSE IF HasSep(st.data) THEN [st EXCEPT !.k = "ok"]
    ELSE IF st.inq = <<>> THEN [st EXCEPT !.k = IF eof THEN "ok" ELSE "block"]
    ELSE LET d2 == Cat(st.data, RecvChunk(st.inq, RECV_CHUNK))
         IN [k |-> IF BLen(d2) > MAX_REQUEST /\ ~HasSep(d2) THEN "raise" ELSE "run",
             data |-> d2, inq |-> RecvRest(st.inq, RECV_CHUNK)]

\* one pass of the loop of recv_http that reads until the header separator is
\* in data; k as above, or "raise" (Request too large)
ReadHeadersStep(st, eof) ==
    IF st.k # "run" THEN st
    ELSE IF HasSep(st.data) THEN [st EXCEPT !.k = "ok"]
    ELSE IF st.inq = <<>> THEN [st EXCEPT !.k = IF eof THEN "ok" ELSE "block"]
    ELSE LET d2 == Cat(st.data, RecvChunk(st.inq, RECV_CHUNK))
         IN [k |-> IF BLen(d2) > MAX_REQUEST THEN "raise" ELSE "run",
             data |-> d2, inq |-> RecvRest(st.inq, RECV_CHUNK)]

RECURSIVE ReadHeadersLoop(_, _, _)
ReadHeadersLoop(st, eof, n) ==
    IF st.k # "run" \/ n <= 0 THEN st
    ELSE IF n = 1 THEN ReadHeadersStep(st, eof)
    ELSE ReadHeadersLoop(ReadHeadersLoop(st, eof, n \div 2), eof, n - (n \div 2))

ReadHeaders(inq, eof) ==
    ReadHeadersLoop([k |-> "run", data |-> <<>>, inq |-> inq], eof, MaxRecvs(inq) + 1)

\* recv_http(sock): [k |-> "ok", raw], [k |-> "raise", detail] or
\* [k |-> "block"]; inq is what is left in the socket
recv_http(inq, eof) ==
    LET h == ReadHeaders(inq, eof)
        data == h.data
        rest == AfterSep(data)
        headers == HeaderDict(Tail(SplitOn(HeaderBlob(data), "CRLF")), EmptyDict)
        length == PyInt(headers[ContentLengthKey])
        body == read_exact(h.inq, eof, length.v - BLen(rest))
    IN IF h.k = "block" THEN [k |-> "block", raw |-> <<>>, detail |-> "", inq |-> h.inq]
       ELSE IF h.k = "raise"
       THEN [k |-> "raise", raw |-> <<>>, detail |-> "Request too large", inq |-> h.inq]
       ELSE IF ~HasSep(data) THEN [k |-> "ok", raw |-> data, detail |-> "", inq |-> h.inq]
       ELSE IF ContentLengthKey \notin DOMAIN headers
       THEN [k |-> "ok", raw |-> data, detail |-> "", inq |-> h.inq]
       ELSE IF ~length.ok
       THEN [k |-> "raise", raw |-> <<>>, detail |-> "Invalid Content-Length", inq |-> h.inq]
       ELSE IF body.k = "block"
       THEN [k |-> "block", raw |-> <<>>, detail |-> "", inq |-> body.inq]
       ELSE [k |-> "ok", raw |-> HeaderBlob(data) \o Separator \o Cat(rest, body.data),
             detail |-> "", inq |-> body.inq]

\* ---------------------------------------------------------- request parser
\* urlparse(target).path and .query for the targets of the model (no scheme,
\* no netloc, no params): the path ends at the first "?" or "#", the query
\* runs from the "?" to the "#"
UrlPath(target) ==
    LET q == IndexOf(target, "?")
        f == IndexOf(target, "#")
        cut == IF q = 0 THEN f ELSE IF f = 0 THEN q ELSE Min(q, f)
    IN IF cut = 0 THEN target ELSE SubSeq(target, 1, cut - 1)

UrlQuery(target) ==
    LET f == IndexOf(target, "#")
        t == IF f = 0 THEN target ELSE SubSeq(target, 1, f - 1)
        q == IndexOf(t, "?")
    IN IF q = 0 THEN <<>> ELSE SubSeq(t, q + 1, Len(t))

\* parse_qs(query): name=value pairs between "&"; a pair with a blank value
\* is dropped (keep_blank_values is False); the values of a name are listed
\* in their order
RECURSIVE QsDict(_, _)
QsDict(pairs, d) ==
    IF pairs = <<>> THEN d
    ELSE LET p == Head(pairs)
             i == IndexOf(p, "=")
             name == IF i = 0 THEN p ELSE SubSeq(p, 1, i - 1)
             value == IF i = 0 THEN <<>> ELSE SubSeq(p, i + 1, Len(p))
         IN IF value = <<>> THEN QsDict(Tail(pairs), d)
            ELSE QsDict(Tail(pairs), (name :> (Get(d, name, <<>>) \o <<value>>)) @@ d)

parse_qs(query) == QsDict(SplitOn(query, "&"), EmptyDict)

Detail(msg, arg) == [msg |-> msg, arg |-> arg]

\* no request (the locals of handle_client before parse_request returns)
NoReq == [method |-> <<>>, path |-> <<>>, query |-> EmptyDict,
          headers |-> EmptyDict, body |-> <<>>]

\* parse_request(raw): [k |-> "ok", req] or [k |-> "raise", detail]
parse_request(raw) ==
    LET header_blob == HeaderBlob(raw)
        body == AfterSep(raw)
        lines == SplitOn(header_blob, "CRLF")
        request_line == Decode(lines[1])
        parts == Words(request_line)
        method == parts[1]
        target == parts[2]
        version == parts[3]
        headers == HeaderDict(Tail(lines), EmptyDict)
    IN IF ~HasSep(raw)
       THEN [k |-> "raise", req |-> NoReq,
             detail |-> Detail("Malformed HTTP request (missing header/body separator)", <<>>)]
       ELSE IF Len(parts) # 3
       THEN [k |-> "raise", req |-> NoReq,
             detail |-> Detail("Bad request line: ", request_line)]
       ELSE IF ~StartsWithHTTP(version)
       THEN [k |-> "raise", req |-> NoReq,
             detail |-> Detail("Bad HTTP version: ", version)]
       ELSE [k |-> "ok", detail |-> Detail("", <<>>),
             req |-> [method |-> Upper(method), path |-> UrlPath(target),
                      query |-> parse_qs(UrlQuery(target)), headers |-> headers,
                      body |-> body]]

\* ------------------------------------------------------------------ router
\* s.split(tok)[2], the split without its limit: the piece between the
\* second and the third item tok of s
ThirdPiece(s, tok) == SplitOn(s, tok)[3]

\* s.split(tok, 2)[2]: what follows the second item tok of s
AfterSecond(s, tok) ==
    LET i == IndexOf(s, tok)
        r == SubSeq(s, i + 1, Len(s))
        j == IndexOf(r, tok)
    IN SubSeq(r, j + 1, Len(r))

Str(toks) == Bytes(toks)

\* a router that sends every method but PATCH on /todos/<id> to the delete
\* handler
RouteDeleteByDefault(method, path) ==
    LET todo_id == PyInt(AfterSecond(path, "/"))
        R(status, handler) == [status |-> status, handler |-> handler, todo_id |-> todo_id.v]
        NoRoute(status) == [status |-> status, handler |-> "None", todo_id |-> 0]
    IN IF path = Str(<<"/">>)
       THEN IF method # Str(<<"GET">>) THEN NoRoute("METHOD_NOT_ALLOWED")
            ELSE [status |-> "OK", handler |-> "handle_home", todo_id |-> 0]
       ELSE IF path = Str(<<"/", "health">>)
       THEN IF method # Str(<<"GET">>) THEN NoRoute("METHOD_NOT_ALLOWED")
            ELSE [status |-> "OK", handler |-> "handle_health", todo_id |-> 0]
       ELSE IF path = Str(<<"/", "todos">>)
       THEN IF method = Str(<<"GET">>)
            THEN [status |-> "OK", handler |-> "handle_list_todos", todo_id |-> 0]
            ELSE IF method = Str(<<"POST">>)
            THEN [status |-> "OK", handler |-> "handle_create_todo", todo_id |-> 0]
            ELSE NoRoute("METHOD_NOT_ALLOWED")
       ELSE IF Len(path) >= 3 /\ SubSeq(path, 1, 3) = Str(<<"/", "todos", "/">>)
       THEN IF ~todo_id.ok THEN NoRoute("NOT_FOUND")
            ELSE IF method = Str(<<"PATCH">>) THEN R("OK", "handle_patch_todo")
            ELSE R("OK", "handle_delete_todo")
       ELSE NoRoute("NOT_FOUND")

\* route(method, path): the status, the handler and the todo_id its closure binds
route(method, path) ==
    LET todo_id == PyInt(AfterSecond(path, "/"))
        R(status, handler) == [status |-> status, handler |-> handler, todo_id |-> todo_id.v]
        NoRoute(status) == [status |-> status, handler |-> "None", todo_id |-> 0]
    IN IF path = Str(<<"/">>)
       THEN IF method # Str(<<"GET">>) THEN NoRoute("METHOD_NOT_ALLOWED")
            ELSE [status |-> "OK", handler |-> "handle_home", todo_id |-> 0]
       ELSE IF path = Str(<<"/", "health">>)
       THEN IF method # Str(<<"GET">>) THEN NoRoute("METHOD_NOT_ALLOWED")
            ELSE [status |-> "OK", handler |-> "handle_health", todo_id |-> 0]
       ELSE IF path = Str(<<"/", "todos">>)
       THEN IF method = Str(<<"GET">>)
            THEN [status |-> "OK", handler |-> "handle_list_todos", todo_id |-> 0]
            ELSE IF method = Str(<<"POST">>)
            THEN [status |-> "OK", handler |-> "handle_create_todo", todo_id |-> 0]
            ELSE NoRoute("METHOD_NOT_ALLOWED")
       ELSE IF Len(path) >= 3 /\ SubSeq(path, 1, 3) = Str(<<"/", "todos", "/">>)
       THEN IF ~todo_id.ok THEN NoRoute("NOT_FOUND")
            ELSE IF method = Str(<<"PATCH">>) THEN R("OK", "handle_patch_todo")
            ELSE IF method = Str(<<"DELETE">>) THEN R("OK", "handle_delete_todo")
            ELSE NoRoute("METHOD_NOT_ALLOWED")
       ELSE NoRoute("NOT_FOUND")

\* -------------------------------------------------------------------- JSON
\* Python values: [ty |-> "str" | "int" | "bool" | "null" | "list", s |-> text]
\* and [ty |-> "dict", d |-> function from key to value]
PyStr(x) == [ty |-> "str", s |-> x]

\* the value of one JSON token; ty "bad" is no JSON value
JsonScalar(t) ==
    CASE t = "\"text\"" -> PyStr("text")
      [] t = "\"done\"" -> PyStr("done")
      [] t = "\"a\"" -> PyStr("a")
      [] t = "\"b\"" -> PyStr("b")
      [] t = "\" b \"" -> PyStr(" b ")
      [] t = "\" \"" -> PyStr(" ")
      [] t = "\"\"" -> PyStr("")
      [] t = "true" -> [ty |-> "bool", s |-> "true"]
      [] t = "false" -> [ty |-> "bool", s |-> "false"]
      [] t = "null" -> [ty |-> "null", s |-> "null"]
      [] t \in Digits -> [ty |-> "int", s |-> t]
      [] OTHER -> [ty |-> "bad", s |-> t]

\* str.strip() on the texts of the model
StripText(x) ==
    CASE x = " b " -> "b"
      [] x = " " -> ""
      [] OTHER -> x

\* bool(v)
Truthy(v) ==
    CASE v.ty = "str" -> v.s # ""
      [] v.ty = "int" -> v.s # "0"
      [] v.ty = "bool" -> v.s = "true"
      [] v.ty = "dict" -> DOMAIN v.d # {}
      [] OTHER -> FALSE

\* the members  key : value , key : value ...  of a JSON object, a later key
\* replacing an earlier one; ok is FALSE when a member is no  string : value
RECURSIVE JsonMembers(_, _)
JsonMembers(members, acc) ==
    IF members = <<>> THEN acc
    ELSE LET m == Head(members)
             good == /\ Len(m) = 3
                     /\ JsonScalar(m[1].t).ty = "str"
                     /\ m[2].t = ":"
                     /\ JsonScalar(m[3].t).ty # "bad"
         IN IF ~acc.ok \/ ~good THEN [ok |-> FALSE, d |-> acc.d]
            ELSE JsonMembers(Tail(members),
                     [ok |-> TRUE,
                      d |-> (JsonScalar(m[1].t).s :> JsonScalar(m[3].t)) @@ acc.d])

NoValue == [ty |-> "null", s |-> "null"]

\* json.loads(body) on the JSON texts of the model (a scalar, [] or an object
\* of scalars): k is "ok", "JSONDecodeError", or "UnicodeDecodeError" for
\* bytes that are no UTF-8
json_loads(body) ==
    LET toks == SelectSeq(body, LAMBDA b : b.t # "SP")
        inner == SubSeq(toks, 2, Len(toks) - 1)
        obj == JsonMembers(IF inner = <<>> THEN <<>> ELSE SplitOn(inner, ","),
                           [ok |-> TRUE, d |-> [k \in {} |-> NoValue]])
    IN IF \E i \in 1..Len(body) : body[i].t = "xFF"
       THEN [k |-> "UnicodeDecodeError", v |-> NoValue]
       ELSE IF \E i \in 1..Len(toks) : toks[i].n # 1
       THEN [k |-> "JSONDecodeError", v |-> NoValue]
       ELSE IF Len(toks) = 1 /\ JsonScalar(toks[1].t).ty # "bad"
       THEN [k |-> "ok", v |-> JsonScalar(toks[1].t)]
       ELSE IF toks = Bytes(<<"[", "]">>)
       THEN [k |-> "ok", v |-> [ty |-> "list", s |-> "[]"]]
       ELSE IF Len(toks) >= 2 /\ toks[1].t = "{" /\ toks[Len(toks)].t = "}" /\ obj.ok
       THEN [k |-> "ok", v |-> [ty |-> "dict", d |-> obj.d]]
       ELSE [k |-> "JSONDecodeError", v |-> NoValue]

\* str(n) for n >= 0
RECURSIVE IntStr(_)
IntStr(n) ==
    LET d == CHOOSE t \in Digits : DigitVal(t) = n % 10
    IN IF n < 10 THEN <<B(d)>> ELSE IntStr(n \div 10) \o <<B(d)>>

Quote(x) == "\"" \o x \o "\""

\* json.dumps(obj, ensure_ascii=False, indent=2) for a dict given as its
\* items <<key, value text>> in insertion order
RECURSIVE DumpItems(_)
DumpItems(items) ==
    IF items = <<>> THEN <<>>
    ELSE Bytes(<<"LF", "SP", "SP", Quote(Head(items)[1]), ":", "SP">>) \o Head(items)[2]
         \o (IF Len(items) > 1 THEN Bytes(<<",">>) ELSE Bytes(<<"LF">>))
         \o DumpItems(Tail(items))

json_dumps(items) ==
    IF items = <<>> THEN Bytes(<<"{", "}">>)
    ELSE Bytes(<<"{">>) \o DumpItems(items) \o Bytes(<<"}">>)

DumpStr(x) == Bytes(<<Quote(x)>>)
DumpBool(b) == Bytes(<<IF b THEN "true" ELSE "false">>)

\* --------------------------------------------------------- response writer
REASONS(status) ==
    CASE status = 200 -> "OK"
      [] status = 201 -> "Created"
      [] status = 204 -> "No Content"
      [] status = 400 -> "Bad Request"
      [] status = 404 -> "Not Found"
      [] status = 405 -> "Method Not Allowed"
      [] status = 422 -> "Unprocessable Entity"
      [] status = 500 -> "Internal Server Error"
      [] OTHER -> "OK"

\* http_response(status, body, headers): the response as its status line
\* and its header dict (base_headers after update(headers)), then the body
http_response(status, body, headers) ==
    LET base_headers ==
            [h \in {"Server", "Connection", "Content-Length"} |->
                CASE h = "Server" -> Str(<<"mini-server">>)
                  [] h = "Connection" -> Str(<<"close">>)
                  [] h = "Content-Length" -> IntStr(BLen(body))]
        dflt == IF "Content-Type" \notin DOMAIN headers /\ body # <<>>
                THEN ("Content-Type" :> Str(<<"text/plain; charset=utf-8">>)) @@ base_headers
                ELSE base_headers
    IN [version |-> "HTTP/1.1", status |-> status, reason |-> REASONS(status),
        headers |-> headers @@ dflt, body |-> body]

NoHeaders == [h \in {} |-> <<>>]

\* str.encode("utf-8") on the texts of the model: U+FFFD, the one character
\* outside ASCII, takes three bytes
RECURSIVE Encode(_)
Encode(s) ==
    IF s = <<>> THEN <<>>
    ELSE (IF Head(s).t = "uFFFD"
          THEN [i \in 1..3 |-> [t |-> <<"xEF", "xBF", "xBD">>[i], n |-> Head(s).n]]
          ELSE <<Head(s)>>)
         \o Encode(Tail(s))

\* a json_response that writes the length of the text, in characters, as
\* Content-Length
JsonResponseTextLength(status, items) ==
    http_response(status, Encode(json_dumps(items)),
                  [h \in {"Content-Type", "Content-Length"} |->
                      IF h = "Content-Type" THEN Str(<<"application/json; charset=utf-8">>)
                      ELSE IntStr(BLen(json_dumps(items)))])

\* json_response(status, obj), obj given as its items
json_response(status, items) ==
    http_response(status, Encode(json_dumps(items)),
                  [h \in {"Content-Type"} |-> Str(<<"application/json; charset=utf-8">>)])

ErrorJson(status, msg) == json_response(status, <<<<"error", DumpStr(msg)>>>>)

\* the todo dict as json.dumps writes it
TodoItems(t) ==
    << <<"id", IntStr(t.id)>>, <<"text", DumpStr(t.text)>>,
       <<"done", DumpBool(t.done)>>, <<"created_at", IntStr(t.created_at)>> >>

\* ------------------------------------------------- handlers: local checks
ContentTypeIsJson(req) == StartsWithJSON(Get(req.headers, ContentTypeKey, <<>>))

\* json.loads(req["body"] or b"{}")
Payload(req) == json_loads(IF req.body = <<>> THEN Bytes(<<"{", "}">>) ELSE req.body)

AttributeError(what) == Detail("AttributeError: " \o what, <<>>)
TypeError(what) == Detail("TypeError: " \o what, <<>>)
IndexError(what) == Detail("IndexError: " \o what, <<>>)
UnicodeDecodeError == Detail("UnicodeDecodeError: invalid start byte", <<>>)
OSError == Detail("OSError: send failed", <<>>)
NoDetail == Detail("", <<>>)
NoResp == http_response(0, <<>>, NoHeaders)

Return(resp) == [k |-> "return", resp |-> resp, detail |-> NoDetail, text |-> ""]
Raise(detail) == [k |-> "raise", resp |-> NoResp, detail |-> detail, text |-> ""]
Go(text) == [k |-> "go", resp |-> NoResp, detail |-> NoDetail, text |-> text]

\* (payload.get("text") or "").strip() of a dict payload: ok is FALSE for
\* AttributeError (a true value that is no str)
TextOf(payload) ==
    LET x == Get(payload.d, "text", NoValue)
        y == IF Truthy(x) THEN x ELSE PyStr("")
    IN [ok |-> y.ty = "str", text |-> StripText(y.s)]

\* handle_create_todo up to the text check: "return" a response, "raise",
\* or "go" on to create the todo with the text
CreateCheck(req) ==
    LET p == Payload(req)
    IN IF ~ContentTypeIsJson(req)
       THEN Return(ErrorJson(422, "Expected Content-Type: application/json"))
       ELSE IF p.k = "JSONDecodeError" THEN Return(ErrorJson(400, "Invalid JSON"))
       ELSE IF p.k = "UnicodeDecodeError" THEN Raise(UnicodeDecodeError)
       ELSE IF p.v.ty # "dict" THEN Raise(AttributeError("object has no attribute 'get'"))
       ELSE IF ~TextOf(p.v).ok
       THEN Raise(AttributeError("object has no attribute 'strip'"))
       ELSE IF TextOf(p.v).text = ""
       THEN Return(ErrorJson(422, "Field 'text' is required"))
       ELSE Go(TextOf(p.v).text)

\* key in payload: "yes", "no", or "raise" (TypeError: not iterable)
InPayload(key, v) ==
    CASE v.ty = "dict" -> IF key \in DOMAIN v.d THEN "yes" ELSE "no"
      [] v.ty = "str" -> IF v.s = key THEN "yes" ELSE "no"
      [] v.ty = "list" -> "no"
      [] OTHER -> "raise"

\* handle_patch_todo from json.loads to  todo["text"] = new_text : "go" with
\* the new text, "skip" (no text in the payload), "return" or "raise"
PatchTextCheck(req) ==
    LET p == Payload(req)
        has == InPayload("text", p.v)
    IN IF p.k = "JSONDecodeError" THEN Return(ErrorJson(400, "Invalid JSON"))
       ELSE IF p.k = "UnicodeDecodeError" THEN Raise(UnicodeDecodeError)
       ELSE IF has = "raise" THEN Raise(TypeError("argument is not iterable"))
       ELSE IF has = "no" THEN [Go("") EXCEPT !.k = "skip"]
       ELSE IF p.v.ty # "dict" THEN Raise(AttributeError("object has no attribute 'get'"))
       ELSE IF ~TextOf(p.v).ok
       THEN Raise(AttributeError("object has no attribute 'strip'"))
       ELSE IF TextOf(p.v).text = ""
       THEN Return(ErrorJson(422, "Field 'text' cannot be empty"))
       ELSE Go(TextOf(p.v).text)

\* the done part written as payload.get("done", False): a payload without
\* the key clears the flag
PatchDoneDefault(req) ==
    LET p == Payload(req)
        has == InPayload("done", p.v)
    IN IF has = "raise" THEN Raise(TypeError("argument is not iterable"))
       ELSE IF has = "no" THEN Go("false")
       ELSE IF p.v.ty # "dict" THEN Raise(TypeError("string indices must be integers"))
       ELSE IF p.v.d["done"].ty # "bool"
       THEN Return(ErrorJson(422, "Field 'done' must be boolean"))
       ELSE Go(p.v.d["done"].s)

\* handle_patch_todo from  if "done" in payload  to  todo["done"] = ... :
\* "go" with the new flag (text is "true" or "false"), "skip", "return" or
\* "raise"
PatchDoneCheck(req) ==
    LET p == Payload(req)
        has == InPayload("done", p.v)
    IN IF has = "raise" THEN Raise(TypeError("argument is not iterable"))
       ELSE IF has = "no" THEN [Go("") EXCEPT !.k = "skip"]
       ELSE IF p.v.ty # "dict" THEN Raise(TypeError("string indices must be integers"))
       ELSE IF p.v.d["done"].ty # "bool"
       THEN Return(ErrorJson(422, "Field 'done' must be boolean"))
       ELSE Go(p.v.d["done"].s)

\* ------------------------------------------------------------------- state
VARIABLES
    todos,      \* STATE["todos"]: the list, as references into heap
    heap,       \* every todo dict ever built, in the order of their creation
    next_id,    \* STATE["next_id"]
    accepted,   \* connections accepted by serve_forever so far
    conn,       \* per connection thread: the socket, the locals of
                \* handle_client and of the handler it runs, what it sent
    deleted     \* history: todo_id -> number of handle_delete_todo calls
                \* for it that returned 204

vars == <<todos, heap, next_id, accepted, conn, deleted>>

Threads == 1..MaxActive

NoSnap == [todos |-> <<>>, heap |-> <<>>, next_id |-> 0, taken |-> FALSE]

Snap == [todos |-> todos, heap |-> heap, next_id |-> next_id, taken |-> TRUE]

\* a thread slot with no connection
Idle ==
    [pc |-> "Idle", inq |-> <<>>, eof |-> FALSE, raw |-> <<>>, req |-> NoReq,
     rstatus |-> "", handler |-> "None", todo_id |-> 0, it |-> 1, idx |-> 0,
     todo |-> 0, tmp |-> 0, text |-> "", resp |-> NoResp, detail |-> NoDetail,
     fault |-> "", exc |-> FALSE, sent |-> <<>>, closed |-> FALSE,
     outcome |-> "", snap |-> NoSnap]

Init ==
    /\ todos = <<>>
    /\ heap = <<>>
    /\ next_id = 1
    /\ accepted = 0
    /\ conn = [c \in Threads |-> Idle]
    /\ deleted = [i \in {} |-> 0]

Store == <<todos, heap, next_id>>

Set(c, r) == conn' = [conn EXCEPT ![c] = r]

\* the handler returned resp: handle_client goes on to sendall(resp)
ToWrite(c, resp) == [conn[c] EXCEPT !.pc = "Writing", !.resp = resp]

\* an exception reached the except clause of handle_client
ToExcept(c, detail, fault) ==
    [conn[c] EXCEPT !.pc = "Except", !.detail = detail,
                    !.fault = IF @ = "" THEN fault ELSE @]

\* ----------------------------------------------------------- serve_forever
\* the thread built for a connection begins handle_client.  serve_forever
\* ends in the source with the Thread object t built and the statement that
\* starts it cut short; that the worker is spawned right after accept is
\* what the specification of the server says
ThreadStart(locals) == [locals EXCEPT !.pc = "Reading"]

\* a listener that runs handle_client itself: it is back at accept() only
\* when the connection before is done
AcceptWhenDone(c, stream, keep) ==
    /\ accepted < MaxConns
    /\ \A d \in Threads : conn[d].pc \in {"Idle", "Done"}
    /\ c = 1
    /\ accepted' = accepted + 1
    /\ Set(c, ThreadStart([Idle EXCEPT !.inq = stream.segs, !.eof = stream.eof,
                                       !.snap = IF keep THEN Snap ELSE NoSnap]))
    /\ UNCHANGED <<todos, heap, next_id, deleted>>

\* accept() returns a connection whose peer sends the segments of stream
\* (and then shuts down its side when stream.eof); a thread is started for
\* it.  keep: record the store as it is now (history, for the runs that
\* handle one request at a time)
Accept(c, stream, keep) ==
    /\ accepted < MaxConns
    /\ conn[c].pc \in {"Idle", "Done"}
    /\ \A d \in Threads : d < c => conn[d].pc \notin {"Idle", "Done"}
    /\ accepted' = accepted + 1
    /\ Set(c, ThreadStart([Idle EXCEPT !.inq = stream.segs, !.eof = stream.eof,
                                       !.snap = IF keep THEN Snap ELSE NoSnap]))
    /\ UNCHANGED <<todos, heap, next_id, deleted>>

\* ----------------------------------------------------------- handle_client
\* raw = recv_http(conn)
Read(c) ==
    /\ conn[c].pc = "Reading"
    /\ LET r == recv_http(conn[c].inq, conn[c].eof)
       IN /\ r.k # "block"
          /\ Set(c, IF r.k = "ok"
                    THEN [conn[c] EXCEPT !.pc = "Parsing", !.raw = r.raw, !.inq = r.inq]
                    ELSE [ToExcept(c, Detail(r.detail, <<>>), "frame") EXCEPT !.inq = r.inq])
    /\ UNCHANGED <<todos, heap, next_id, accepted, deleted>>

\* method, path, query, headers, body = parse_request(raw)
Parse(c) ==
    /\ conn[c].pc = "Parsing"
    /\ LET r == parse_request(conn[c].raw)
       IN Set(c, IF r.k = "ok"
                 THEN [conn[c] EXCEPT !.pc = "Routing", !.req = r.req]
                 ELSE ToExcept(c, r.detail, "parse"))
    /\ UNCHANGED <<todos, heap, next_id, accepted, deleted>>

NotFoundResp == ErrorJson(404, "Not found")
MethodNotAllowedResp == ErrorJson(405, "Method not allowed")

\* status, handler = route(method, path) and the two early answers
Route(c) ==
    /\ conn[c].pc = "Routing"
    /\ LET r == route(conn[c].req.method, conn[c].req.path)
           k == [conn[c] EXCEPT !.rstatus = r.status, !.handler = r.handler,
                                !.todo_id = r.todo_id]
       IN Set(c, IF r.status = "NOT_FOUND"
                 THEN [k EXCEPT !.pc = "Writing", !.resp = NotFoundResp]
                 ELSE IF r.status = "METHOD_NOT_ALLOWED"
                 THEN [k EXCEPT !.pc = "Writing", !.resp = MethodNotAllowedResp]
                 ELSE [k EXCEPT !.pc = r.handler])
    /\ UNCHANGED <<todos, heap, next_id, accepted, deleted>>

\* conn.sendall(...) inside the try: it may fail (the peer is gone), and
\* the OSError then reaches the except clause
Send(c) ==
    /\ conn[c].pc = "Writing"
    /\ \E ok \in BOOLEAN :
         LET k == [conn[c] EXCEPT !.sent = Append(@, [resp |-> conn[c].resp, ok |-> ok])]
         IN Set(c, IF ok THEN [k EXCEPT !.pc = "Finally"]
                   ELSE [k EXCEPT !.pc = "Except", !.detail = OSError,
                                  !.fault = IF @ = "" THEN "send" ELSE @])
    /\ UNCHANGED <<todos, heap, next_id, accepted, deleted>>

\* a 500 answer that leaves the detail out
ErrorRespWithoutDetail(detail) ==
    json_response(500, << <<"error", DumpStr("Internal server error")>> >>)

\* json.dumps({"error": ..., "detail": str(e)})
ErrorResp(detail) ==
    json_response(500, << <<"error", DumpStr("Internal server error")>>,
                          <<"detail", Bytes(<<"\"" \o detail.msg>>) \o detail.arg
                                      \o Bytes(<<"\"">>)>> >>)

\* the except clause: the 500 answer is sent outside any try, so a failure
\* of this sendall leaves handle_client as an exception (after the finally)
Except(c) ==
    /\ conn[c].pc = "Except"
    /\ \E ok \in BOOLEAN :
         Set(c, [conn[c] EXCEPT !.pc = "Finally", !.exc = ~ok,
                                !.sent = Append(@, [resp |-> ErrorResp(conn[c].detail),
                                                    ok |-> ok])])
    /\ UNCHANGED <<todos, heap, next_id, accepted, deleted>>

\* how handle_client ends after the finally clause: an exception raised by
\* close is swallowed, one pending from the except clause propagates
Outcome(exc, close_ok) == IF exc THEN "raised" ELSE "returned"

\* handle_client without its finally clause: close is reached only when no
\* exception is on its way out
CloseUnlessRaised(c) ==
    /\ conn[c].pc = "Finally"
    /\ \E ok \in BOOLEAN :
         Set(c, [Idle EXCEPT !.pc = "Done", !.closed = ~conn[c].exc,
                             !.outcome = Outcome(conn[c].exc, ok)])
    /\ UNCHANGED <<todos, heap, next_id, accepted, deleted>>

\* the finally clause: conn.close(), which may fail; the thread ends and its
\* locals are gone
Close(c) ==
    /\ conn[c].pc = "Finally"
    /\ \E ok \in BOOLEAN :
         Set(c, [Idle EXCEPT !.pc = "Done", !.closed = TRUE,
                             !.outcome = Outcome(conn[c].exc, ok)])
    /\ UNCHANGED <<todos, heap, next_id, accepted, deleted>>

\* ---------------------------------------------------------------- handlers
\* handle_home: the static page
HomePage == Bytes(<<"<!doctype html>", "LF", "<html>", "</html>">>)

handle_home(c) ==
    /\ conn[c].pc = "handle_home"
    /\ Set(c, ToWrite(c, http_response(200, HomePage,
                 [h \in {"Content-Type"} |-> Str(<<"text/html; charset=utf-8">>)])))
    /\ UNCHANGED <<todos, heap, next_id, accepted, deleted>>

\* handle_health: the uptime is one symbol, the count is len(STATE["todos"])
handle_health(c) ==
    /\ conn[c].pc = "handle_health"
    /\ Set(c, ToWrite(c, json_response(200,
                 << <<"status", DumpStr("ok")>>, <<"uptime_seconds", Bytes(<<"uptime">>)>>,
                    <<"todos", IntStr(Len(todos))>> >>)))
    /\ UNCHANGED <<todos, heap, next_id, accepted, deleted>>

\* the done filter of handle_list_todos: the references of the todos listed
ListFilter(query, list, objs) ==
    LET key == Str(<<"done">>)
        val == Lower(query[key][1])
    IN IF key \notin DOMAIN query THEN list
       ELSE IF val \in {Str(<<"true">>), Str(<<"1">>), Str(<<"yes">>)}
       THEN SelectSeq(list, LAMBDA r : objs[r].done)
       ELSE IF val \in {Str(<<"false">>), Str(<<"0">>), Str(<<"no">>)}
       THEN SelectSeq(list, LAMBDA r : ~objs[r].done)
       ELSE list

\* json.dumps of a list of todo dicts (the deeper indent of nested values is
\* not reproduced)
RECURSIVE DumpTodos(_, _)
DumpTodos(list, objs) ==
    IF list = <<>> THEN <<>>
    ELSE json_dumps(TodoItems(objs[Head(list)]))
         \o (IF Len(list) > 1 THEN Bytes(<<",">>) ELSE <<>>)
         \o DumpTodos(Tail(list), objs)

handle_list_todos(c) ==
    /\ conn[c].pc = "handle_list_todos"
    /\ Set(c, ToWrite(c, json_response(200,
                 << <<"todos", Bytes(<<"[">>)
                               \o DumpTodos(ListFilter(conn[c].req.query, todos, heap), heap)
                               \o Bytes(<<"]">>)>> >>)))
    /\ UNCHANGED <<todos, heap, next_id, accepted, deleted>>

\* the id taken from the length of the list instead of the counter
NewTodoByCount(id, text, now) ==
    [id |-> Len(todos) + 1, text |-> text, done |-> FALSE, created_at |-> now]

\* the todo dict built by handle_create_todo; created_at is the ordinal of
\* the time.time() call
NewTodo(id, text, now) == [id |-> id, text |-> text, done |-> FALSE, created_at |-> now]

\* handle_create_todo, from its entry to  todo = {"id": STATE["next_id"], ...}
handle_create_todo(c) ==
    /\ conn[c].pc = "handle_create_todo"
    /\ LET r == CreateCheck(conn[c].req)
       IN IF r.k = "go"
          THEN /\ heap' = Append(heap, NewTodo(next_id, r.text, Len(heap) + 1))
               /\ Set(c, [conn[c] EXCEPT !.pc = "create_load", !.todo = Len(heap) + 1])
          ELSE /\ Set(c, IF r.k = "return" THEN ToWrite(c, r.resp)
                         ELSE ToExcept(c, r.detail, "handler"))
               /\ UNCHANGED heap
    /\ UNCHANGED <<todos, next_id, accepted, deleted>>

\* STATE["next_id"] += 1 reads the counter ...
CreateLoad(c) ==
    /\ conn[c].pc = "create_load"
    /\ Set(c, [conn[c] EXCEPT !.pc = "create_store", !.tmp = next_id])
    /\ UNCHANGED <<todos, heap, next_id, accepted, deleted>>

\* ... and then stores the value read plus one
CreateStore(c) ==
    /\ conn[c].pc = "create_store"
    /\ next_id' = conn[c].tmp + 1
    /\ Set(c, [conn[c] EXCEPT !.pc = "create_append"])
    /\ UNCHANGED <<todos, heap, accepted, deleted>>

\* STATE["todos"].append(todo); return json_response(201, todo)
CreateAppend(c) ==
    /\ conn[c].pc = "create_append"
    /\ todos' = Append(todos, conn[c].todo)
    /\ Set(c, ToWrite(c, json_response(201, TodoItems(heap[conn[c].todo]))))
    /\ UNCHANGED <<heap, next_id, accepted, deleted>>

\* one step of the generator over STATE["todos"] that looks for todo_id: the
\* list iterator is at index it (from 1); found is 0 while the search goes on,
\* the index of the match, or -1 when the list ended (next() gives None)
ScanStep(list, objs, it, todo_id) ==
    IF it > Len(list) THEN [found |-> -1, it |-> it]
    ELSE IF objs[list[it]].id = todo_id THEN [found |-> it, it |-> it]
    ELSE [found |-> 0, it |-> it + 1]

TodoNotFound == ErrorJson(404, "Todo not found")

\* handle_patch_todo: the content type check
handle_patch_todo(c) ==
    /\ conn[c].pc = "handle_patch_todo"
    /\ Set(c, IF ~ContentTypeIsJson(conn[c].req)
              THEN ToWrite(c, ErrorJson(422, "Expected Content-Type: application/json"))
              ELSE [conn[c] EXCEPT !.pc = "patch_scan"])
    /\ UNCHANGED <<todos, heap, next_id, accepted, deleted>>

\* todo = next((t for t in STATE["todos"] if t["id"] == todo_id), None)
PatchScan(c) ==
    /\ conn[c].pc = "patch_scan"
    /\ LET r == ScanStep(todos, heap, conn[c].it, conn[c].todo_id)
       IN Set(c, IF r.found = -1 THEN ToWrite(c, TodoNotFound)
                 ELSE IF r.found = 0 THEN [conn[c] EXCEPT !.it = r.it]
                 ELSE [conn[c] EXCEPT !.pc = "patch_text", !.todo = todos[r.found]])
    /\ UNCHANGED <<todos, heap, next_id, accepted, deleted>>

\* json.loads and the text part of the payload
PatchText(c) ==
    /\ conn[c].pc = "patch_text"
    /\ LET r == PatchTextCheck(conn[c].req)
       IN IF r.k = "go"
          THEN /\ heap' = [heap EXCEPT ![conn[c].todo].text = r.text]
               /\ Set(c, [conn[c] EXCEPT !.pc = "patch_done"])
          ELSE /\ Set(c, IF r.k = "skip" THEN [conn[c] EXCEPT !.pc = "patch_done"]
                         ELSE IF r.k = "return" THEN ToWrite(c, r.resp)
                         ELSE ToExcept(c, r.detail, "handler"))
               /\ UNCHANGED heap
    /\ UNCHANGED <<todos, next_id, accepted, deleted>>

\* the done part of the payload; return json_response(200, todo)
PatchDone(c) ==
    /\ conn[c].pc = "patch_done"
    /\ LET r == PatchDoneCheck(conn[c].req)
           after == IF r.k = "go"
                    THEN [heap EXCEPT ![conn[c].todo].done = (r.text = "true")]
                    ELSE heap
       IN /\ heap' = after
          /\ Set(c, IF r.k \in {"go", "skip"}
                    THEN ToWrite(c, json_response(200, TodoItems(after[conn[c].todo])))
                    ELSE IF r.k = "return" THEN ToWrite(c, r.resp)
                    ELSE ToExcept(c, r.detail, "handler"))
    /\ UNCHANGED <<todos, next_id, accepted, deleted>>

\* handle_delete_todo: idx = next((i for i, t in enumerate(...) if ...), None)
handle_delete_todo(c) ==
    /\ conn[c].pc = "handle_delete_todo"
    /\ LET r == ScanStep(todos, heap, conn[c].it, conn[c].todo_id)
       IN Set(c, IF r.found = -1 THEN ToWrite(c, TodoNotFound)
                 ELSE IF r.found = 0 THEN [conn[c] EXCEPT !.it = r.it]
                 ELSE [conn[c] EXCEPT !.pc = "delete_pop", !.idx = r.found])
    /\ UNCHANGED <<todos, heap, next_id, accepted, deleted>>

\* list.pop(idx), idx from 1
Pop(list, idx) == SubSeq(list, 1, idx - 1) \o SubSeq(list, idx + 1, Len(list))

Count(bag, k) == IF k \in DOMAIN bag THEN bag[k] ELSE 0

\* STATE["todos"].pop(idx); return http_response(204, b"")
DeletePop(c) ==
    /\ conn[c].pc = "delete_pop"
    /\ IF conn[c].idx > Len(todos)
       THEN /\ Set(c, ToExcept(c, IndexError("pop index out of range"), "handler"))
            /\ UNCHANGED <<todos, deleted>>
       ELSE /\ todos' = Pop(todos, conn[c].idx)
            /\ deleted' = (conn[c].todo_id :> (Count(deleted, conn[c].todo_id) + 1)) @@ deleted
            /\ Set(c, ToWrite(c, http_response(204, <<>>, NoHeaders)))
    /\ UNCHANGED <<heap, next_id, accepted>>

\* ------------------------------------------------------------ the requests
CRLF == Bytes(<<"CRLF">>)

\* the bytes of a request: request line, header lines, blank line, body
Msg(line, headers, body) == Bytes(line) \o CRLF \o headers \o CRLF \o Bytes(body)

Request(method, target) == <<method, "SP">> \o target \o <<"SP", "HTTP/1.1">>

CT == Bytes(<<"Content-Type", ":", "SP", "application/json", "CRLF">>)

CL(value) == Bytes(<<"Content-Length", ":", "SP">>) \o Bytes(value) \o CRLF

JsonMsg(method, target, body) ==
    Msg(Request(method, target), CT \o Bytes(<<"Content-Length", ":", "SP">>)
                                    \o IntStr(Len(body)) \o CRLF, body)

\* a peer that sends s in one segment and waits for the answer
One(s) == [segs |-> <<s>>, eof |-> FALSE]

\* a peer that sends s in one segment and shuts down its side
Shut(s) == [segs |-> IF s = <<>> THEN <<>> ELSE <<s>>, eof |-> TRUE]

\* a peer that sends s in two segments, cut after k bytes
Two(s, k) == [segs |-> <<Take(s, k), Drop(s, k)>>, eof |-> FALSE]

\* a peer that sends s in two segments, cut after k bytes, and shuts down
ShutTwo(s, k) == [segs |-> <<Take(s, k), Drop(s, k)>>, eof |-> TRUE]

TextA == <<"{", "\"text\"", ":", "SP", "\"a\"", "}">>
TextB == <<"{", "\"text\"", ":", "\"b\"", "}">>
DoneTrue == <<"{", "\"done\"", ":", "true", "}">>

PostA == One(JsonMsg("POST", <<"/", "todos">>, TextA))
Delete1 == One(Msg(Request("DELETE", <<"/", "todos", "/", "1">>), <<>>, <<>>))
Patch1Done == One(JsonMsg("PATCH", <<"/", "todos", "/", "1">>, DoneTrue))
GetHome == One(Msg(Request("GET", <<"/">>), <<>>, <<>>))
GetHealth == One(Msg(Request("GET", <<"/", "health">>), <<>>, <<>>))
GetTodos == One(Msg(Request("GET", <<"/", "todos">>), <<>>, <<>>))
BadLength == One(Msg(Request("POST", <<"/", "todos">>), CT \o CL(<<"a">>), TextA))

\* the requests of the runs with concurrent connection threads
Streams == {PostA, Delete1, Patch1Done, GetHome, GetHealth, GetTodos, BadLength}

\* the methods and the targets of the runs that handle one request at a time
Methods == {"GET", "POST", "PATCH", "DELETE", "PUT", "get"}

Targets ==
    { <<"/">>, <<"/", "health">>, <<"/", "todos">>, <<"/", "todos", "/", "1">>,
      <<"/", "todos", "/", "2">>, <<"/", "todos", "/", "+", "1">>,
      <<"/", "todos", "/", "-", "1">>, <<"/", "todos", "/", "abc">>,
      <<"/", "todos", "/">>, <<"/", "todos", "/", "1", "/", "2">>,
      <<"/", "todos", "/", "1", "x">>, <<"/", "nope">>, <<"/", "health", "/">>,
      <<"/", "todosx">>, <<"/", "todos", "?", "done", "=", "true">>,
      <<"/", "todos", "?", "done", "=", "False", "&", "done", "=", "true">>,
      <<"/", "todos", "?", "done", "=", "maybe">>,
      <<"/", "todos", "?", "done", "=">>, <<"/", "nope", "?", "done", "=", "true">> }

\* JSON texts sent as the body of POST /todos and PATCH /todos/1
Bodies ==
    { TextA, TextB, DoneTrue, <<>>, <<"{", "}">>, <<"[", "]">>, <<"5">>, <<"\"text\"">>,
      <<"{">>, <<"{", "\"text\"", ":", "5", "}">>, <<"{", "\"text\"", ":", "0", "}">>,
      <<"{", "\"text\"", ":", "null", "}">>, <<"{", "\"text\"", ":", "true", "}">>,
      <<"{", "\"text\"", ":", "\" \"", "}">>, <<"{", "\"text\"", ":", "\" b \"", "}">>,
      <<"{", "\"text\"", ":", "\"\"", "}">>, <<"{", "\"done\"", ":", "false", "}">>,
      <<"{", "\"done\"", ":", "1", "}">>, <<"{", "\"done\"", ":", "\"a\"", "}">>,
      <<"{", "\"text\"", ":", "\"b\"", ",", "\"done\"", ":", "true", "}">>,
      <<"{", "\"text\"", ":", "\"b\"", ",", "\"done\"", ":", "5", "}">>,
      <<"{", "\"text\"", ":", "\"a\"", ",", "\"text\"", ":", "5", "}">>,
      <<"{", "\"a\"", ":", "\"b\"", "}">>, <<"{", "xFF", "}">> }

Plain(method, target) == Msg(Request(method, target), <<>>, <<>>)

BigHeader(k) == Msg(Request("GET", <<"/">>), Bytes(<<"X-Pad", ":">>) \o <<Fill(k)>> \o CRLF, <<>>)

\* requests whose framing or request line is what matters
Framing ==
    { \* a POST whose body has no content type
      One(Msg(Request("POST", <<"/", "todos">>), CL(<<"6">>), TextA)),
      One(Msg(Request("POST", <<"/", "todos">>),
              Bytes(<<"Content-Type", ":", "text/plain", "CRLF">>) \o CL(<<"6">>), TextA)),
      \* Content-Length that is no integer, negative, repeated, in capitals
      BadLength,
      One(Msg(Request("POST", <<"/", "todos">>), CT \o CL(<<>>), TextA)),
      One(Msg(Request("POST", <<"/", "todos">>), CT \o CL(<<"-", "1">>), TextA)),
      One(Msg(Request("POST", <<"/", "todos">>), CT \o CL(<<"a">>) \o CL(<<"6">>), TextA)),
      One(Msg(Request("POST", <<"/", "todos">>),
              CT \o Bytes(<<"CONTENT-LENGTH", "SP", ":", "SP", "6", "SP", "CRLF">>), TextA)),
      \* the body in a second segment, cut short, longer than declared
      Two(JsonMsg("POST", <<"/", "todos">>, TextA), 14),
      Two(JsonMsg("POST", <<"/", "todos">>, TextA), 17),
      Two(JsonMsg("POST", <<"/", "todos">>, TextA), 5),
      Shut(Take(JsonMsg("POST", <<"/", "todos">>, TextA), 18)),
      One(Take(JsonMsg("POST", <<"/", "todos">>, TextA), 18)),
      One(Msg(Request("POST", <<"/", "todos">>), CT \o CL(<<"6">>), TextA \o <<"x">>)),
      Two(Msg(Request("POST", <<"/", "todos">>), CT \o CL(<<"6">>), TextA \o <<"x">>), 20),
      \* the peer gone in the middle of the body, and in the middle of the headers
      ShutTwo(Take(JsonMsg("POST", <<"/", "todos">>, TextA), 22), 20),
      ShutTwo(Take(JsonMsg("POST", <<"/", "todos">>, TextA), 16), 5),
      \* no header separator
      Shut(<<>>),
      Shut(Bytes(Request("GET", <<"/">>)) \o CRLF),
      One(Bytes(Request("GET", <<"/">>)) \o CRLF),
      \* bad request lines and versions
      One(Msg(<<"GET", "SP", "/">>, <<>>, <<>>)),
      One(Msg(<<"GET", "SP", "/", "SP", "HTTP/1.1", "SP", "x">>, <<>>, <<>>)),
      One(Msg(<<>>, <<>>, <<>>)),
      One(Msg(<<"GET", "SP", "SP", "/", "SP", "HTTP/1.0">>, <<>>, <<>>)),
      One(Msg(<<"GET", "SP", "/", "SP", "http/1.1">>, <<>>, <<>>)),
      One(Msg(<<"GET", "SP", "/", "nope", "SP", "FTP/1">>, <<>>, <<>>)),
      One(Msg(<<"xFF", "SP", "/">>, <<>>, <<>>)),
      \* headers larger than the cap, with and without the separator
      One(BigHeader(MAX_REQUEST)),
      One(BigHeader(MAX_REQUEST - 10)),
      Shut(Take(BigHeader(MAX_REQUEST), MAX_REQUEST)),
      One(Take(BigHeader(MAX_REQUEST), MAX_REQUEST + 1)) }

AllStreams ==
    {One(Plain(m, t)) : m \in Methods, t \in Targets}
    \cup {One(JsonMsg("POST", <<"/", "todos">>, b)) : b \in Bodies}
    \cup {One(JsonMsg("PATCH", <<"/", "todos", "/", "1">>, b)) : b \in Bodies}
    \cup Framing

\* ----------------------------------------------------------- specification
Step(c) ==
    \/ Read(c)
    \/ Parse(c)
    \/ Route(c)
    \/ handle_home(c)
    \/ handle_health(c)
    \/ handle_list_todos(c)
    \/ handle_create_todo(c)
    \/ CreateLoad(c)
    \/ CreateStore(c)
    \/ CreateAppend(c)
    \/ handle_patch_todo(c)
    \/ PatchScan(c)
    \/ PatchText(c)
    \/ PatchDone(c)
    \/ handle_delete_todo(c)
    \/ DeletePop(c)
    \/ Send(c)
    \/ Except(c)
    \/ Close(c)

\* one thread per accepted connection, all running at once
Next ==
    \E c \in Threads :
        \/ \E s \in Streams : Accept(c, s, FALSE)
        \/ Step(c)

Spec == Init /\ [][Next]_vars

\* a started thread that can take its next step: every statement of
\* handle_client runs to its end except a recv on a silent socket
Runnable(c) ==
    /\ conn[c].pc \notin {"Idle", "Done"}
    /\ conn[c].pc = "Reading" => recv_http(conn[c].inq, conn[c].eof).k # "block"

\* the requests of the runs checked for liveness: those of Streams, one the
\* parser rejects and one whose handler raises
BadLine == One(Msg(<<"GET", "SP", "/">>, <<>>, <<>>))
PostFive == One(JsonMsg("POST", <<"/", "todos">>, <<"5">>))
FairStreams == Streams \cup {BadLine, PostFive}

\* the listener of the runs checked for liveness
FairNext ==
    \E c \in Threads :
        \/ \E s \in FairStreams :
               accepted < MaxFairConns /\ c <= MaxFairActive /\ Accept(c, s, FALSE)
        \/ Step(c)

\* the interpreter keeps scheduling every started thread: weak fairness of
\* Step(c), that is WF_vars(Step(c)) with ENABLED <<Step(c)>>_vars written
\* as the state predicate Runnable(c)
Scheduled(c) == []<>(~Runnable(c)) \/ []<><<Step(c)>>_vars

\* (the fairness of the finally clause is stated once more in its usual form)
FairSpec ==
    Init /\ [][FairNext]_vars /\ \A c \in Threads : Scheduled(c) /\ WF_vars(Close(c))

\* a peer that sends the request line and then stays silent: its worker is
\* blocked in recv_http for good
Stalled == One(Bytes(Request("GET", <<"/">>)) \o CRLF)

\* the runs in which the first connection is the stalled one: the listener
\* goes on accepting the others
StallNext ==
    \E c \in Threads :
        \/ accepted = 0 /\ Accept(c, Stalled, FALSE)
        \/ \E s \in FairStreams :
               /\ accepted >= 1
               /\ accepted < 1 + MaxFairConns
               /\ c <= 1 + MaxFairActive
               /\ Accept(c, s, FALSE)
        \/ Step(c)

StallSpec ==
    Init /\ [][StallNext]_vars /\ \A c \in Threads : Scheduled(c) /\ WF_vars(Close(c))

\* no connection thread is alive
Quiet == \A d \in Threads : conn[d].pc \in {"Idle", "Done"}

\* the requests handled one at a time: a connection is accepted only when
\* the thread of the one before has ended
SeqNext ==
    \E c \in Threads :
        \/ \E s \in AllStreams : Quiet /\ Accept(c, s, TRUE)
        \/ Step(c)

SeqSpec == Init /\ [][SeqNext]_vars

\* ------------------------------------------------------------------ claims
\* C1: in every reachable state of the store, concurrent handlers included,
\* no two todos of STATE["todos"] have the same id.
C1_UniqueIdsInList ==
    \A i, j \in 1..Len(todos) : i # j => heap[todos[i]].id # heap[todos[j]].id

\* C2: STATE["next_id"] never decreases in any step, and no id is handed to
\* two different created todos, deleted ones included.
C2_CounterNeverReused ==
    [][/\ next_id' >= next_id
       /\ \A i, j \in 1..Len(heap') : i # j => heap'[i].id # heap'[j].id]_vars

\* C4: a connection gets exactly one response: handle_client never writes a
\* second response, and it has written one when it reaches the finally clause.
C4_ExactlyOneResponse ==
    \A c \in Threads :
        /\ Len(conn[c].sent) <= 1
        /\ conn[c].pc = "Finally" => Len(conn[c].sent) = 1

\* C6: for a todo created with id X (the only one created with that id), at
\* most one DELETE /todos/X returns 204, concurrent DELETEs included.
C6_DeleteSucceedsOnce ==
    \A x \in DOMAIN deleted :
        Cardinality({r \in 1..Len(heap) : heap[r].id = x}) = 1 => deleted[x] <= 1

\* C7: no fault escapes handle_client: whatever fails, the connection thread
\* ends by handle_client returning, never by an exception.
C7_ReturnsNormally ==
    \A c \in Threads : conn[c].pc = "Done" => conn[c].outcome = "returned"

\* the status of the i-th response handle_client wrote
Status(c, i) == conn[c].sent[i].resp.status

\* handle_client answered with status st: it is about to write it, or wrote
\* it first; a second write happens only after the first failed, and is a 500
Answered(c, st) ==
    /\ conn[c].pc = "Writing" => conn[c].sent = <<>> /\ conn[c].resp.status = st
    /\ conn[c].pc # "Writing" => conn[c].sent # <<>>
    /\ conn[c].sent # <<>> => Status(c, 1) = st
    /\ \A i \in 2..Len(conn[c].sent) : Status(c, i) = 500 /\ ~conn[c].sent[1].ok

\* a segment that reads as an integer: an optional sign, then digits only
IsIntegerText(seg) ==
    LET d == IF seg # <<>> /\ seg[1].t \in {"+", "-"} THEN Tail(seg) ELSE seg
    IN d # <<>> /\ \A i \in 1..Len(d) : d[i].t \in Digits

IsTodoPath(p) ==
    /\ Len(p) >= 3
    /\ SubSeq(p, 1, 3) = Str(<<"/", "todos", "/">>)
    /\ IsIntegerText(SubSeq(p, 4, Len(p)))

KnownPath(p) == p \in {Str(<<"/">>), Str(<<"/", "health">>), Str(<<"/", "todos">>)} \/ IsTodoPath(p)

MethodAccepted(m, p) ==
    IF p \in {Str(<<"/">>), Str(<<"/", "health">>)} THEN m = Str(<<"GET">>)
    ELSE IF p = Str(<<"/", "todos">>) THEN m \in {Str(<<"GET">>), Str(<<"POST">>)}
    ELSE m \in {Str(<<"PATCH">>), Str(<<"DELETE">>)}

\* C3: a known path ('/', '/health', '/todos', '/todos/<integer>') with a
\* method it does not accept is answered 405; a path that matches no route is
\* answered 404 whatever the method; 404 is never the answer to a method
\* mismatch, and 405 is the answer to nothing but a method mismatch.
C3_NotFoundVersusNotAllowed ==
    \A c \in Threads :
        conn[c].rstatus # "" =>
            LET m == conn[c].req.method
                p == conn[c].req.path
            IN /\ KnownPath(p) /\ ~MethodAccepted(m, p) => Answered(c, 405)
               /\ ~KnownPath(p) => Answered(c, 404)
               /\ \A i \in 1..Len(conn[c].sent) :
                      Status(c, i) = 405 => KnownPath(p) /\ ~MethodAccepted(m, p)

\* C3 witness: a method the path /todos/<integer> does not accept was
\* answered 405, and the client has it.
C3_Witness ==
    \E c \in Threads :
        /\ IsTodoPath(conn[c].req.path)
        /\ conn[c].req.method = Str(<<"PUT">>)
        /\ Len(conn[c].sent) = 1 /\ conn[c].sent[1].ok /\ Status(c, 1) = 405

\* the payload of a create request is JSON under a JSON content type, and
\* its text is missing, blank after trimming, or no string (or the payload is
\* no object)
BadText(req) ==
    LET p == Payload(req)
    IN /\ ContentTypeIsJson(req)
       /\ p.k = "ok"
       /\ \/ p.v.ty # "dict"
          \/ "text" \notin DOMAIN p.v.d
          \/ p.v.d["text"].ty # "str"
          \/ StripText(p.v.d["text"].s) = ""

StoreAsBefore(c) ==
    /\ conn[c].snap.taken
    /\ todos = conn[c].snap.todos
    /\ heap = conn[c].snap.heap
    /\ next_id = conn[c].snap.next_id

\* C8: a POST /todos with a JSON payload whose text is missing, blank or no
\* string is answered 422, and the collection and the counter are unchanged.
C8_BadTextIs422 ==
    \A c \in Threads :
        /\ conn[c].handler = "handle_create_todo"
        /\ BadText(conn[c].req)
        /\ conn[c].sent # <<>>
        => Status(c, 1) = 422 /\ StoreAsBefore(c)

\* the parser must fail on raw: no separator, a request line that has not
\* three words, a version that does not start with HTTP/
Unparseable(raw) ==
    LET parts == Words(Decode(SplitOn(HeaderBlob(raw), "CRLF")[1]))
    IN ~HasSep(raw) \/ Len(parts) # 3 \/ parts[3][1].t \notin {"HTTP/1.1", "HTTP/1.0", "HTTP/"}

FailureTexts ==
    {"Request too large", "Invalid Content-Length",
     "Malformed HTTP request (missing header/body separator)", "Bad request line: ",
     "Bad HTTP version: "}

\* C9: a failure of the frame reader or of the parser is answered with one
\* 500 response whose body carries the text of the failure, never with
\* another status; and what the parser cannot parse is such a failure.
C9_FramingFailureIs500 ==
    \A c \in Threads :
        /\ conn[c].pc \in {"Routing", "Writing", "Except", "Finally"} /\ conn[c].fault # "frame"
           /\ Unparseable(conn[c].raw) => conn[c].fault = "parse"
        /\ conn[c].fault \in {"frame", "parse"} =>
             /\ conn[c].detail.msg \in FailureTexts
             /\ conn[c].rstatus = ""
             /\ \/ conn[c].pc = "Except" /\ conn[c].sent = <<>>
                \/ /\ conn[c].pc = "Finally"
                   /\ Len(conn[c].sent) = 1
                   /\ Status(c, 1) = 500
                   /\ \E i \in 1..Len(conn[c].sent[1].resp.body) :
                          conn[c].sent[1].resp.body[i].t = "\"" \o conn[c].detail.msg

\* C9 witness: the header section grew past the cap and the client has the
\* 500 that says so.
C9_Witness ==
    \E c \in Threads :
        /\ conn[c].fault = "frame"
        /\ conn[c].detail.msg = "Request too large"
        /\ Len(conn[c].sent) = 1 /\ conn[c].sent[1].ok /\ Status(c, 1) = 500

\* the PATCH handler of c returned 200
Patched200(c) ==
    /\ conn[c].handler = "handle_patch_todo"
    /\ \/ conn[c].pc = "Writing" /\ conn[c].resp.status = 200
       \/ conn[c].sent # <<>> /\ Status(c, 1) = 200

InObject(key, req) == Payload(req).v.ty = "dict" /\ key \in DOMAIN Payload(req).v.d

\* C10: handled one at a time, a PATCH /todos/X that returns 200 changes only
\* the fields present in its payload, on the todo with id X: an absent field,
\* the id and created_at, every other todo, the list and the counter stay.
C10_PatchChangesOnlyGivenFields ==
    \A c \in Threads :
        Patched200(c) =>
            LET t == conn[c].todo
                old == conn[c].snap
            IN /\ old.taken
               /\ todos = old.todos
               /\ next_id = old.next_id
               /\ Len(heap) = Len(old.heap)
               /\ \A r \in 1..Len(heap) : r # t => heap[r] = old.heap[r]
               /\ heap[t].id = conn[c].todo_id
               /\ heap[t].id = old.heap[t].id
               /\ heap[t].created_at = old.heap[t].created_at
               /\ ~InObject("text", conn[c].req) => heap[t].text = old.heap[t].text
               /\ ~InObject("done", conn[c].req) => heap[t].done = old.heap[t].done

\* C10 witness: a PATCH with done alone returned 200, the flag changed, and
\* there is another todo in the list.
C10_Witness ==
    \E c \in Threads :
        /\ Patched200(c)
        /\ ~InObject("text", conn[c].req)
        /\ InObject("done", conn[c].req)
        /\ heap[conn[c].todo].done # conn[c].snap.heap[conn[c].todo].done
        /\ Len(todos) >= 2

\* C5: once its read phase has ended, a connection thread reaches Closed:
\* conn.close() is attempted on every path out of handle_client, also when
\* the write of the response or of the 500 answer fails.
C5_EventuallyClosed ==
    \A c \in Threads :
        (conn[c].pc \notin {"Idle", "Reading", "Done"})
            ~> (conn[c].pc = "Done" /\ conn[c].closed)

\* C5 witness: a thread is closed whose 500 answer could not be written.
C5_Witness ==
    \E c \in Threads :
        conn[c].pc = "Done" /\ conn[c].closed /\ conn[c].outcome = "raised"

\* C11: with the requests handled one at a time, the ids of the todos built
\* by successive POST /todos are strictly increasing, whatever DELETE and
\* PATCH requests come in between (heap lists every todo in creation order).
C11_SequentialIdsIncrease ==
    \A i, j \in 1..Len(heap) : i < j => heap[i].id < heap[j].id

\* C11 witness: a third todo was created and answered 201 after an earlier
\* one was deleted.
C11_Witness ==
    \E c \in Threads :
        /\ Len(heap) >= 3
        /\ DOMAIN deleted # {}
        /\ conn[c].todo = Len(heap)
        /\ Len(conn[c].sent) = 1 /\ conn[c].sent[1].ok /\ Status(c, 1) = 201

\* the listener is at accept() whatever the workers do: while a thread slot
\* is free, a connection can be accepted
ListenerFree ==
    (accepted < MaxConns /\ \E c \in Threads : conn[c].pc \in {"Idle", "Done"})
        => ENABLED (\E c \in Threads : Accept(c, GetHome, FALSE))

\* C12: the listener goes back to accept without waiting for the worker it
\* started, and every accepted connection that sends a complete request gets
\* a response written, also while the worker of another connection is
\* blocked for good in the frame reader.
C12_WorkersRunBesideBlocked ==
    /\ []ListenerFree
    /\ \A c \in Threads :
           (conn[c].pc = "Reading" /\ Runnable(c)) ~> (conn[c].sent # <<>>)

\* C12 witness: a connection has its response while the worker of the first
\* connection is still blocked in recv_http.
C12_Witness ==
    \E c \in Threads :
        /\ conn[1].pc = "Reading" /\ ~Runnable(1)
        /\ c # 1
        /\ Len(conn[c].sent) = 1 /\ conn[c].sent[1].ok /\ Status(c, 1) = 200


\* the headers of response r agree with its body
WellFramed(r) ==
    /\ PyInt(r.headers["Content-Length"]) = [ok |-> TRUE, v |-> BLen(r.body)]
    /\ r.headers["Connection"] = Str(<<"close">>)
    /\ r.status = 204 => r.body = <<>> /\ r.headers["Content-Length"] = Str(<<"0">>)

\* C13: in every response written, Content-Length is the number of bytes of
\* the body, Connection is close, and a 204 has an empty body and
\* Content-Length 0.
C13_ResponsesWellFramed ==
    \A c \in Threads :
        /\ conn[c].pc = "Writing" => WellFramed(conn[c].resp)
        /\ \A i \in 1..Len(conn[c].sent) : WellFramed(conn[c].sent[i].resp)

\* C13 witness: a 500 answer whose body holds a character of three bytes has
\* been written, on a connection after one whose DELETE was answered 204.
C13_Witness ==
    \E c \in Threads :
        /\ Len(conn[c].sent) = 1 /\ Status(c, 1) = 500
        /\ \E i \in 1..Len(conn[c].sent[1].resp.body) :
               conn[c].sent[1].resp.body[i].t = "xEF"
        /\ DOMAIN deleted # {}


\* the bytes still queued in the socket
RECURSIVE QueuedLen(_)
QueuedLen(inq) == IF inq = <<>> THEN 0 ELSE BLen(Head(inq)) + QueuedLen(Tail(inq))

\* C14: when the request declares Content-Length L >= 0 and the peer has sent
\* at least L bytes after the separator, the body handed to the router and
\* the handler has exactly L bytes, however the peer split its bytes and
\* whatever it sent after them.
C14_BodyHasDeclaredLength ==
    \A c \in Threads :
        LET req == conn[c].req
            L == PyInt(req.headers[ContentLengthKey])
        IN (/\ conn[c].pc = "Routing"
            /\ ContentLengthKey \in DOMAIN req.headers
            /\ L.ok /\ L.v >= 0
            /\ BLen(req.body) + QueuedLen(conn[c].inq) >= L.v)
           => BLen(req.body) = L.v


\* all the bytes queued in the socket, as one byte string
RECURSIVE Flat(_)
Flat(inq) == IF inq = <<>> THEN <<>> ELSE Cat(Head(inq), Flat(Tail(inq)))

Malformed == "Malformed HTTP request (missing header/body separator)"

\* the peer has shut down having sent less than one request: no separator,
\* or fewer body bytes than the Content-Length it declared
CutShort(c) ==
    LET all == Flat(conn[c].inq)
        headers == HeaderDict(Tail(SplitOn(HeaderBlob(all), "CRLF")), EmptyDict)
        L == PyInt(headers[ContentLengthKey])
    IN /\ conn[c].eof
       /\ BLen(all) <= MAX_REQUEST
       /\ HasSep(all) =>
              /\ ContentLengthKey \in DOMAIN headers
              /\ L.ok
              /\ BLen(AfterSep(all)) < L.v

TooLarge == "Request too large"

\* C16: the buffer in which recv_http looks for the separator is never more
\* than one chunk above 2,000,000 bytes; the read fails with Request too
\* large exactly when the buffer is above 2,000,000 bytes, also when the
\* chunk that takes it there holds the separator.
C16_CapOnHeaderBuffer ==
    \A c \in Threads :
        conn[c].pc = "Reading" =>
            LET h == ReadHeaders(conn[c].inq, conn[c].eof)
                r == recv_http(conn[c].inq, conn[c].eof)
            IN /\ BLen(h.data) <= MAX_REQUEST + RECV_CHUNK
               /\ (h.k = "raise") = (BLen(h.data) > MAX_REQUEST)
               /\ (r.k = "raise" /\ r.detail = TooLarge) = (BLen(h.data) > MAX_REQUEST)

\* C16 witness: a peer sent more than 2,000,000 bytes, the last chunk taking
\* the buffer above the cap, and was answered 500 for a request too large.
C16_Witness ==
    \E c \in Threads :
        /\ conn[c].fault = "frame" /\ conn[c].detail.msg = TooLarge
        /\ conn[c].inq = <<>> /\ ~conn[c].eof
        /\ Len(conn[c].sent) = 1 /\ Status(c, 1) = 500


\* the places of handle_client outside the handlers
DispatcherSteps == {"Idle", "Reading", "Parsing", "Routing", "Writing", "Except", "Finally", "Done"}

\* what the router must say for a method and a path, and for nothing else
Expected(m, p) ==
    IF ~KnownPath(p) THEN "NOT_FOUND"
    ELSE IF ~MethodAccepted(m, p) THEN "METHOD_NOT_ALLOWED"
    ELSE "OK"

\* C17: a handler runs only after the router matched; a request that fails
\* in the frame reader or the parser, or that the router answers with not
\* found or method not allowed, leaves the store as it was; and the outcome
\* of the router is fixed by the method and the path alone.
C17_OnlyMatchedRequestsReachHandlers ==
    \A c \in Threads :
        /\ conn[c].pc \notin DispatcherSteps => conn[c].rstatus = "OK"
        /\ conn[c].rstatus # "OK" => conn[c].handler = "None"
        /\ conn[c].rstatus # "" =>
               conn[c].rstatus = Expected(conn[c].req.method, conn[c].req.path)
        /\ (/\ conn[c].pc \notin {"Idle", "Done"}
            /\ \/ conn[c].fault \in {"frame", "parse"}
               \/ conn[c].rstatus \in {"NOT_FOUND", "METHOD_NOT_ALLOWED"})
           => StoreAsBefore(c)

\* C17 witness: with a todo in the store, POST /todos/<integer> was answered
\* 405 and the store is as it was when the connection was accepted.
C17_Witness ==
    \E c \in Threads :
        /\ todos # <<>>
        /\ IsTodoPath(conn[c].req.path)
        /\ conn[c].req.method = Str(<<"POST">>)
        /\ conn[c].rstatus = "METHOD_NOT_ALLOWED"
        /\ StoreAsBefore(c)
        /\ Len(conn[c].sent) = 1 /\ conn[c].sent[1].ok /\ Status(c, 1) = 405


\* C18: a PATCH that is answered 422, 404 or 400 leaves the store as it was:
\* no field of any todo is written, also when the payload holds a good text
\* and a done that is no boolean.
C18_RefusedPatchChangesNothing ==
    \A c \in Threads :
        (/\ conn[c].handler = "handle_patch_todo"
         /\ conn[c].sent # <<>>
         /\ Status(c, 1) \in {400, 404, 422})
        => StoreAsBefore(c)


\* C19: the todo a DELETE /todos/X takes out of the collection has id X,
\* also while other connection threads work on the store.
C19_DeleteRemovesItsTarget ==
    [][\A c \in Threads :
          (conn[c].pc = "delete_pop" /\ conn'[c].pc = "Writing" /\ todos' # todos)
              => heap[todos[conn[c].idx]].id = conn[c].todo_id]_vars


\* C20: the collection is in the order of creation: down the list the ids
\* grow strictly, in every state, also when creates run at the same time.
C20_ListOrderedById ==
    \A i \in 1..(Len(todos) - 1) : heap[todos[i]].id < heap[todos[i + 1]].id

====
